---- MODULE Spec2Model ----
(***************************************************************************)
(* SolarflowHub (src/src/solarflow/solarflow.py): the hub's in-memory      *)
(* state, the MQTT message handler, the two command operations and the two *)
(* elapsed-time accessors.                                                 *)
(*                                                                         *)
(* Time is in whole seconds.  A timestamp field is <<>> (Python None) or   *)
(* <<t>>.  A float is an exact fraction [num, den] in lowest terms.  A     *)
(* topic is the sequence of its '/'-separated segments, a payload the      *)
(* sequence of its characters.                                             *)
(***************************************************************************)
EXTENDS Integers, Sequences, FiniteSets, TLC

VARIABLES hub, now, ticks, published, lastCall, ncalls, history

vars == <<hub, now, ticks, published, lastCall, ncalls, history>>

(***************************************************************************)
(* Bounds of the model.                                                    *)
(***************************************************************************)
MaxCalls == 2
MaxTicks == 1
MaxRequest == 160
NegRequests == 20

(***************************************************************************)
(* Program constants.                                                      *)
(***************************************************************************)
StaleSeconds == 120
LowLimit == 100
Step == 30
HalfStep == 15
SecondsPerHour == 3600
WindowSeconds == 120

NoTS == << >>

(***************************************************************************)
(* Fractions.                                                              *)
(***************************************************************************)
Abs(x) == IF x < 0 THEN 0 - x ELSE x

RECURSIVE GCD(_, _)
GCD(a, b) == IF b = 0 THEN a ELSE GCD(b, a % b)

Frac(n, d) ==
    LET g == GCD(Abs(n), d)
    IN  [num |-> n \div g, den |-> d \div g]

FromInt(n) == [num |-> n, den |-> 1]

(***************************************************************************)
(* TimewindowBuffer (utils, not part of the sources at hand): samples      *)
(* [ts, value], oldest first; add appends the sample and drops what lies   *)
(* outside the retention window, wavg weights the i-th oldest sample by i. *)
(***************************************************************************)
TimewindowBuffer == << >>

add(buf, value, t) ==
    SelectSeq(Append(buf, [ts |-> t, value |-> value]),
              LAMBDA s : t - s.ts <= WindowSeconds)

RECURSIVE WeightedSum(_, _)
WeightedSum(buf, i) ==
    IF i = 0 THEN 0 ELSE i * buf[i].value + WeightedSum(buf, i - 1)

wavg(buf) ==
    LET n == Len(buf)
    IN  Frac(WeightedSum(buf, n), (n * (n + 1)) \div 2)

(***************************************************************************)
(* int(msg.payload.decode()): surrounding blanks are stripped, one sign is *)
(* allowed, then decimal digits only; anything else raises ValueError.     *)
(***************************************************************************)
DigitValue ==
    [c \in {"0", "1", "2", "3", "4", "5", "6", "7", "8", "9"} |->
        CASE c = "0" -> 0 [] c = "1" -> 1 [] c = "2" -> 2 [] c = "3" -> 3
          [] c = "4" -> 4 [] c = "5" -> 5 [] c = "6" -> 6 [] c = "7" -> 7
          [] c = "8" -> 8 [] c = "9" -> 9]

IsDigit(c) == c \in DOMAIN DigitValue

RECURSIVE strip(_)
strip(s) ==
    IF s = << >> THEN s
    ELSE IF s[1] = " " THEN strip(Tail(s))
    ELSE IF s[Len(s)] = " " THEN strip(SubSeq(s, 1, Len(s) - 1))
    ELSE s

RECURSIVE DigitsValue(_)
DigitsValue(s) ==
    IF s = << >> THEN 0
    ELSE 10 * DigitsValue(SubSeq(s, 1, Len(s) - 1)) + DigitValue[s[Len(s)]]

int(s) ==
    LET t == strip(s)
        signed == t # << >> /\ t[1] \in {"+", "-"}
        body == IF signed THEN Tail(t) ELSE t
    IN  IF body = << >> \/ \E i \in 1..Len(body) : ~IsDigit(body[i])
        THEN [ok |-> FALSE, value |-> 0]
        ELSE [ok |-> TRUE,
              value |-> IF signed /\ t[1] = "-"
                        THEN 0 - DigitsValue(body) ELSE DigitsValue(body)]

(***************************************************************************)
(* The state after construction.                                           *)
(***************************************************************************)
device_id == "5ak8yGU7"

property_topic == <<"iot", "73bkTV", device_id, "properties", "write">>

SolarflowHub ==
    [solarInputValues |-> TimewindowBuffer,
     solarInputPower  |-> FromInt(-1),
     outputPackPower  |-> 0,
     packInputPower   |-> 0,
     outputHomePower  |-> -1,
     electricLevel    |-> -1,
     batteries        |-> [sn \in {"none"} |-> -1],
     outputLimit      |-> -1,
     lastFullTS       |-> NoTS,
     lastEmptyTS      |-> NoTS,
     lastSolarInputTS |-> NoTS]

(***************************************************************************)
(* The update operations.                                                  *)
(***************************************************************************)
\* updSolarInput keeping the time of the first sample
updSolarInput_KeepsFirstStamp(h, value, t) ==
    LET buf == add(h.solarInputValues, value, t)
    IN  [h EXCEPT !.solarInputValues = buf,
                  !.solarInputPower = wavg(buf),
                  !.lastSolarInputTS = IF @ = NoTS THEN <<t>> ELSE @]

updSolarInput(h, value, t) ==
    LET buf == add(h.solarInputValues, value, t)
    IN  [h EXCEPT !.solarInputValues = buf,
                  !.solarInputPower = wavg(buf),
                  !.lastSolarInputTS = <<t>>]

\* updElectricLevel forgetting the last full time on any other value
updElectricLevel_ClearsFull(h, value, t) ==
    [h EXCEPT !.lastFullTS = IF value = 100 THEN <<t>> ELSE NoTS,
              !.lastEmptyTS = IF value = 0 THEN <<t>> ELSE @,
              !.electricLevel = value]

updElectricLevel(h, value, t) ==
    [h EXCEPT !.lastFullTS = IF value = 100 THEN <<t>> ELSE @,
              !.lastEmptyTS = IF value = 0 THEN <<t>> ELSE @,
              !.electricLevel = value]

updOutputPack_Accumulates(h, value) ==
    [h EXCEPT !.outputPackPower = @ + value]

updOutputPack(h, value) == [h EXCEPT !.outputPackPower = value]

updPackInput_WrongField(h, value) == [h EXCEPT !.outputPackPower = value]

updPackInput(h, value) == [h EXCEPT !.packInputPower = value]

updOutputHome(h, value) == [h EXCEPT !.outputHomePower = value]

updOutputLimit(h, value) == [h EXCEPT !.outputLimit = value]

pop(d, key) == [k \in DOMAIN d \ {key} |-> d[k]]

update(d, key, value) ==
    [k \in DOMAIN d \cup {key} |-> IF k = key THEN value ELSE d[k]]

updBatterySoC(h, sn, value) ==
    [h EXCEPT !.batteries = update(pop(@, "none"), sn, value)]

(***************************************************************************)
(* Inputs: the topics and payloads delivered to handleMsg, the limits      *)
(* requested of setOutputLimit.                                            *)
(***************************************************************************)
Metrics ==
    {"electricLevel", "solarInputPower", "outputPackPower",
     "packInputPower", "outputHomePower", "outputLimit"}

Serials == {"SN1", "none"}

TelemetryTopics ==
    {<<"solarflow-hub", "telemetry", m>> : m \in Metrics}
    \cup {<<"solarflow-hub", "telemetry", "batteries", sn, "socLevel">> :
             sn \in Serials}

UnknownMetricTopic == <<"solarflow-hub", "telemetry", "ElectricLevel">>

OutsideTelemetryTopic == <<"solarflow-hub", "control", "socLevel">>

ForeignTopic == <<"zendure", "telemetry", "electricLevel">>

Topics ==
    TelemetryTopics
    \cup {UnknownMetricTopic, OutsideTelemetryTopic, ForeignTopic}

Payloads ==
    {<< >>, <<"0">>, <<"1", "0", "0">>, <<"-", "1">>,
     <<"1", ".", "5">>, <<"a", "b", "c">>}

RequestTable == {-5, 0, 29, 30, 44, 45, 100, 150}

Requests == (0 - NegRequests)..MaxRequest

(***************************************************************************)
(* handleMsg.  The prefix 'solarflow-hub' holds no '/', so                 *)
(* msg.topic.startswith('solarflow-hub') is decided by the first segment;  *)
(* of the first segments delivered here only "solarflow-hub" has it.       *)
(***************************************************************************)
startswith(topic) == topic # << >> /\ topic[1] \in {"solarflow-hub"}

\* The attributes a SolarflowHub instance has: what __init__ assigns and the
\* methods of the class.  self.<name> for any other name raises.
Attributes ==
    {"client", "device_id", "solarInputValues", "solarInputPower",
     "outputPackPower", "packInputPower", "outputHomePower", "electricLevel",
     "batteries", "outputLimit", "lastFullTS", "lastEmptyTS",
     "lastSolarInputTS", "property_topic", "subscribe", "updSolarInput",
     "updElectricLevel", "updOutputPack", "updPackInput", "updOutputHome",
     "updOutputLimit", "updBatterySoC", "handleMsg", "setOutputLimit",
     "setBuzzer", "getLastFullBattery", "getLastEmptyBattery"}

\* The names bound at module level: a global name outside them (and outside
\* the builtins) raises NameError when it is evaluated.
Globals ==
    {"mqtt_client", "datetime", "timedelta", "reduce", "logging", "json",
     "sys", "TimewindowBuffer", "red", "reset", "FORMAT", "log",
     "SolarflowHub"}

Returned(h) == [hub |-> h, raised |-> "none"]

Raised(h, e) == [hub |-> h, raised |-> e]

\* the test of line 100 taken as seconds >= 120
stale_Inclusive(h, t) ==
    /\ h.lastSolarInputTS # NoTS
    /\ t - h.lastSolarInputTS[1] >= StaleSeconds

\* line 97-100
stale(h, t) ==
    /\ h.lastSolarInputTS # NoTS
    /\ t - h.lastSolarInputTS[1] > StaleSeconds

\* line 103: msg.topic.split('/')[-1]
Metric(topic) == topic[Len(topic)]

\* line 119: msg.topic.split('/')[-2]
Serial(topic) == topic[Len(topic) - 1]

\* line 105-122
dispatch(h, topic, metric, value, t) ==
    CASE metric = "electricLevel"   -> updElectricLevel(h, value, t)
      [] metric = "solarInputPower" -> updSolarInput(h, value, t)
      [] metric = "outputPackPower" -> updOutputPack(h, value)
      [] metric = "packInputPower"  -> updPackInput(h, value)
      [] metric = "outputHomePower" -> updOutputHome(h, value)
      [] metric = "outputLimit"     -> updOutputLimit(h, value)
      [] metric = "socLevel"        ->
            updBatterySoC(h, Serial(topic), value)
      [] OTHER                      -> h

handleMsgOutcome(h, topic, payload, t) ==
    IF ~(startswith(topic) /\ payload # << >>)
    THEN Returned(h)
    ELSE IF stale(h, t) /\ "updSolarInputPower" \notin Attributes
    THEN Raised(h, "AttributeError")
    ELSE LET h1 == IF stale(h, t) THEN updSolarInput(h, 0, t) ELSE h
             metric == Metric(topic)
             parsed == int(payload)
         IN  IF ~parsed.ok
             THEN Raised(h1, "ValueError")
             ELSE Returned(dispatch(h1, topic, metric, parsed.value, t))

\* What a handleMsg call that returned normally has applied, read off the
\* message itself: the times of the most recent electricLevel updates with
\* value 100 and with value 0 and of the most recent solar sample, and the
\* most recent socLevel reported for each serial.
NoHistory ==
    [full |-> NoTS, empty |-> NoTS, solar |-> NoTS, reported |-> << >>]

Observe(hist, topic, payload, raised, t) ==
    IF raised # "none" \/ ~startswith(topic) \/ payload = << >>
    THEN hist
    ELSE LET m == Metric(topic)
             v == int(payload).value
         IN  [hist EXCEPT
                !.full = IF m = "electricLevel" /\ v = 100 THEN <<t>> ELSE @,
                !.empty = IF m = "electricLevel" /\ v = 0 THEN <<t>> ELSE @,
                !.solar = IF m = "solarInputPower" THEN <<t>> ELSE @,
                !.reported =
                    IF m = "socLevel"
                    THEN [k \in DOMAIN @ \cup {Serial(topic)} |->
                             IF k = Serial(topic) THEN v ELSE @[k]]
                    ELSE @]

handleMsg(topic, payload) ==
    /\ ncalls < MaxCalls
    /\ LET r == handleMsgOutcome(hub, topic, payload, now)
       IN  /\ hub' = r.hub
           /\ lastCall' = [op |-> "handleMsg", raised |-> r.raised,
                           arg |-> 0, limit |-> 0, ret |-> << >>]
           /\ history' = Observe(history, topic, payload, r.raised, now)
    /\ ncalls' = ncalls + 1
    /\ UNCHANGED <<now, ticks, published>>

(***************************************************************************)
(* setOutputLimit and setBuzzer.                                           *)
(***************************************************************************)
\* the threshold test of line 130 taken as limit < 100
quantized_StrictThreshold(limit) ==
    LET l0 == IF limit < 0 THEN 0 ELSE limit
    IN  IF l0 < LowLimit
        THEN Step * (l0 \div Step) + Step * ((l0 % Step) \div HalfStep)
        ELSE l0

\* line 125-135: the value of the local `limit` when line 137 is reached
quantized(limit) ==
    LET l0 == IF limit < 0 THEN 0 ELSE limit
    IN  IF l0 <= LowLimit
        THEN Step * (l0 \div Step) + Step * ((l0 % Step) \div HalfStep)
        ELSE l0

\* self.client.publish(topic_limit_solarflow, json.dumps(payload))
publish(pub, payload) ==
    IF "topic_limit_solarflow" \in Globals
    THEN [published |-> Append(pub, [topic |-> property_topic,
                                     payload |-> payload]),
          raised |-> "none"]
    ELSE [published |-> pub, raised |-> "NameError"]

\* setOutputLimit keeping the commanded limit as the hub's outputLimit
setOutputLimit_StoresLimit(limit) ==
    /\ ncalls < MaxCalls
    /\ LET q == quantized(limit)
           r == publish(published,
                        [properties |-> [k \in {"outputLimit"} |-> q]])
       IN  /\ published' = r.published
           /\ hub' = [hub EXCEPT !.outputLimit = q]
           /\ lastCall' = [op |-> "setOutputLimit", raised |-> r.raised,
                           arg |-> limit, limit |-> q,
                           ret |-> IF r.raised = "none" THEN <<q>> ELSE << >>]
    /\ ncalls' = ncalls + 1
    /\ UNCHANGED <<now, ticks, history>>

setOutputLimit(limit) ==
    /\ ncalls < MaxCalls
    /\ LET q == quantized(limit)
           r == publish(published,
                        [properties |-> [k \in {"outputLimit"} |-> q]])
       IN  /\ published' = r.published
           /\ lastCall' = [op |-> "setOutputLimit", raised |-> r.raised,
                           arg |-> limit, limit |-> q,
                           ret |-> IF r.raised = "none" THEN <<q>> ELSE << >>]
    /\ ncalls' = ncalls + 1
    /\ UNCHANGED <<hub, now, ticks, history>>

setBuzzer(state) ==
    /\ ncalls < MaxCalls
    /\ LET r == publish(published,
                        [properties |-> [k \in {"buzzerSwitch"} |->
                                            IF ~state THEN 0 ELSE 1]])
       IN  /\ published' = r.published
           /\ lastCall' = [op |-> "setBuzzer", raised |-> r.raised,
                           arg |-> IF state THEN 1 ELSE 0, limit |-> 0,
                           ret |-> << >>]
    /\ ncalls' = ncalls + 1
    /\ UNCHANGED <<hub, now, ticks, history>>

(***************************************************************************)
(* The accessors.                                                          *)
(***************************************************************************)
\* the elapsed time taken in minutes
hoursSince_Minutes(ts, t) ==
    IF ts # NoTS THEN Frac(t - ts[1], 60) ELSE FromInt(-1)

hoursSince(ts, t) ==
    IF ts # NoTS THEN Frac(t - ts[1], SecondsPerHour) ELSE FromInt(-1)

getLastFullBattery ==
    /\ ncalls < MaxCalls
    /\ lastCall' = [op |-> "getLastFullBattery", raised |-> "none",
                    arg |-> 0, limit |-> 0,
                    ret |-> <<hoursSince(hub.lastFullTS, now)>>]
    /\ ncalls' = ncalls + 1
    /\ UNCHANGED <<hub, now, ticks, published, history>>

getLastEmptyBattery ==
    /\ ncalls < MaxCalls
    /\ lastCall' = [op |-> "getLastEmptyBattery", raised |-> "none",
                    arg |-> 0, limit |-> 0,
                    ret |-> <<hoursSince(hub.lastEmptyTS, now)>>]
    /\ ncalls' = ncalls + 1
    /\ UNCHANGED <<hub, now, ticks, published, history>>

(***************************************************************************)
(* The wall clock (datetime.now()) advances between calls.                 *)
(***************************************************************************)
Tick(d) ==
    /\ ticks < MaxTicks
    /\ now' = now + d
    /\ ticks' = ticks + 1
    /\ UNCHANGED <<hub, published, lastCall, ncalls, history>>

Init ==
    /\ hub = SolarflowHub
    /\ now = 0
    /\ ticks = 0
    /\ published = << >>
    /\ lastCall = [op |-> "__init__", raised |-> "none", arg |-> 0,
                   limit |-> 0, ret |-> << >>]
    /\ ncalls = 0
    /\ history = NoHistory

Next ==
    \/ \E topic \in Topics, payload \in Payloads : handleMsg(topic, payload)
    \/ \E limit \in RequestTable : setOutputLimit(limit)
    \/ \E state \in BOOLEAN : setBuzzer(state)
    \/ getLastFullBattery
    \/ getLastEmptyBattery
    \/ \E d \in {StaleSeconds, StaleSeconds + 1} : Tick(d)

Spec == Init /\ [][Next]_vars

\* The command path alone, over every requested limit of the range.
NextCommands ==
    \/ \E limit \in Requests : setOutputLimit(limit)
    \/ \E state \in BOOLEAN : setBuzzer(state)

SpecCommands == Init /\ [][NextCommands]_vars

\* The inbound path alone: deliveries and the passing of time.
NextDelivery ==
    \/ \E topic \in Topics, payload \in Payloads : handleMsg(topic, payload)
    \/ \E d \in {StaleSeconds, StaleSeconds + 1} : Tick(d)

SpecDelivery == Init /\ [][NextDelivery]_vars

\* The deliveries the subscription of lines 49-57 yields: telemetry topics
\* only.
NextTelemetry ==
    \/ \E topic \in TelemetryTopics, payload \in Payloads :
          handleMsg(topic, payload)
    \/ \E d \in {StaleSeconds, StaleSeconds + 1} : Tick(d)

SpecTelemetry == Init /\ [][NextTelemetry]_vars

(***************************************************************************)
(* Vocabulary of the properties.                                           *)
(***************************************************************************)
\* The topic lies in the telemetry namespace solarflow-hub/telemetry/.
InNamespace(topic) ==
    Len(topic) >= 3 /\ topic[1] = "solarflow-hub" /\ topic[2] = "telemetry"

\* A qualifying message: in-namespace topic, non-empty payload.
Qualifying(topic, payload) == InNamespace(topic) /\ payload # << >>

ValidPayloads == {p \in Payloads : p # << >> /\ int(p).ok}

MalformedPayloads == {p \in Payloads : p # << >> /\ ~int(p).ok}

\* More than 120 seconds have passed since the last solar-input sample.
IsStale == stale(hub, now)

\* The synthesized solar-input update with value 0 applied to h at time t.
ZeroInjected(h, t) ==
    LET buf == add(h.solarInputValues, 0, t)
    IN  [h EXCEPT !.solarInputValues = buf,
                  !.solarInputPower = wavg(buf),
                  !.lastSolarInputTS = <<t>>]

(***************************************************************************)
(* C1.  Staleness injection and ordering: whenever handleMsg receives a    *)
(* qualifying message with an integer payload while lastSolarInputTS is    *)
(* set and more than 120 seconds old, the call raises nothing, a solar     *)
(* sample 0 is applied first (pushed into the buffer, solarInputPower      *)
(* recomputed, lastSolarInputTS reset to now) and the message's own update *)
(* is applied to the result in the same call.                              *)
(***************************************************************************)
C1_StalenessInjection ==
    [][\A topic \in Topics, payload \in ValidPayloads :
          (IsStale /\ Qualifying(topic, payload) /\ handleMsg(topic, payload))
          => /\ lastCall'.raised = "none"
             /\ hub' = dispatch(ZeroInjected(hub, now), topic,
                                Metric(topic), int(payload).value, now)]_vars

(***************************************************************************)
(* C2.  Malformed payload handling: for an in-namespace message whose      *)
(* non-empty payload is not a base-10 integer, handleMsg raises nothing    *)
(* and leaves every field of the hub unchanged.                            *)
(***************************************************************************)
C2_MalformedDropped ==
    [][\A topic \in Topics, payload \in MalformedPayloads :
          (InNamespace(topic) /\ handleMsg(topic, payload))
          => /\ lastCall'.raised = "none"
             /\ hub' = hub]_vars

(***************************************************************************)
(* C3.  Namespace filtering: handleMsg is a no-op (no field changes, no    *)
(* exception) whenever the payload is empty or the topic lies outside      *)
(* solarflow-hub/telemetry/, also when the topic begins with solarflow-hub *)
(* and ends in a supported metric name.                                    *)
(***************************************************************************)
C3_NamespaceFilter ==
    [][\A topic \in Topics, payload \in Payloads :
          ((payload = << >> \/ ~InNamespace(topic))
             /\ handleMsg(topic, payload))
          => /\ lastCall'.raised = "none"
             /\ hub' = hub]_vars

(***************************************************************************)
(* C4.  Exact-field update.                                                *)
(***************************************************************************)
SupportedTopics == TelemetryTopics

\* The claim's reading: h with exactly the field of the topic's metric set
\* to v (for socLevel the batteries entry of the topic's serial).
OnlyFieldSet(h, topic, v) ==
    CASE Metric(topic) = "electricLevel"   -> [h EXCEPT !.electricLevel = v]
      [] Metric(topic) = "solarInputPower" ->
            [h EXCEPT !.solarInputPower = FromInt(v)]
      [] Metric(topic) = "outputPackPower" -> [h EXCEPT !.outputPackPower = v]
      [] Metric(topic) = "packInputPower"  -> [h EXCEPT !.packInputPower = v]
      [] Metric(topic) = "outputHomePower" -> [h EXCEPT !.outputHomePower = v]
      [] Metric(topic) = "outputLimit"     -> [h EXCEPT !.outputLimit = v]
      [] Metric(topic) = "socLevel"        ->
            [h EXCEPT !.batteries =
                [k \in DOMAIN @ \cup {Serial(topic)} |->
                    IF k = Serial(topic) THEN v ELSE @[k]]]

\* What one update does besides: an electricLevel of 100 or 0 stamps
\* lastFullTS or lastEmptyTS, a solar sample goes through the buffer and
\* stamps lastSolarInputTS, a socLevel drops the placeholder key.
WithSideEffects(h, topic, v, t) ==
    CASE Metric(topic) = "electricLevel" ->
            [OnlyFieldSet(h, topic, v) EXCEPT
                !.lastFullTS = IF v = 100 THEN <<t>> ELSE @,
                !.lastEmptyTS = IF v = 0 THEN <<t>> ELSE @]
      [] Metric(topic) = "solarInputPower" ->
            LET kept == SelectSeq(h.solarInputValues,
                                  LAMBDA s : t - s.ts <= WindowSeconds)
                buf == Append(kept, [ts |-> t, value |-> v])
            IN  [h EXCEPT !.solarInputValues = buf,
                          !.solarInputPower = wavg(buf),
                          !.lastSolarInputTS = <<t>>]
      [] Metric(topic) = "socLevel" ->
            [h EXCEPT !.batteries =
                [k \in (DOMAIN @ \ {"none"}) \cup {Serial(topic)} |->
                    IF k = Serial(topic) THEN v ELSE @[k]]]
      [] OTHER -> OnlyFieldSet(h, topic, v)

Delays == {0, StaleSeconds, StaleSeconds + 1}

\* The staleness check fires at neither of the two deliveries.
NeitherStale(once, d) == ~stale(hub, now) /\ ~stale(once, now + d)

NoTimestamps(h) ==
    [h EXCEPT !.lastFullTS = NoTS, !.lastEmptyTS = NoTS,
              !.lastSolarInputTS = NoTS]

NoBuffer(h) == [h EXCEPT !.solarInputValues = << >>]

NoSolar(h) ==
    [h EXCEPT !.solarInputValues = << >>, !.solarInputPower = FromInt(0)]

\* The metric handleMsg applies the message as an update of, "" when it
\* applies none (filtered out, or the payload is no integer).
Applied(topic, payload) ==
    IF startswith(topic) /\ payload # << >> /\ int(payload).ok
    THEN Metric(topic) ELSE ""

\* The three timestamps after the second delivery at time t2: the second
\* call's time where the message (metric m, value v) sets them, else as
\* after the first.
TimestampsAdvance(m, v, once, twice, t2) ==
    /\ twice.lastFullTS =
          IF m = "electricLevel" /\ v = 100 THEN <<t2>> ELSE once.lastFullTS
    /\ twice.lastEmptyTS =
          IF m = "electricLevel" /\ v = 0 THEN <<t2>> ELSE once.lastEmptyTS
    /\ twice.lastSolarInputTS =
          IF m = "solarInputPower" THEN <<t2>> ELSE once.lastSolarInputTS

ClaimedResult(v) ==
    IF v < 0 THEN 0
    ELSE IF v > 100 THEN v
    ELSE 30 * (v \div 30) + 30 * ((v % 30) \div 15)

ClaimedTable ==
    {<<-5, 0>>, <<0, 0>>, <<29, 0>>, <<30, 30>>, <<44, 30>>, <<45, 60>>,
     <<100, 90>>, <<150, 150>>}

C6_QuantizationResult ==
    lastCall.op = "setOutputLimit"
    => /\ lastCall.raised = "none"
       /\ lastCall.ret = <<ClaimedResult(lastCall.arg)>>
       /\ \A e \in ClaimedTable : lastCall.arg = e[1] => lastCall.ret = <<e[2]>>

(***************************************************************************)
(* C7 as stated: for a requested value in [0,100] every result is in       *)
(* {0, 30, 60, 90, 120}, and at least one requested value in [0,100]       *)
(* yields 120.                                                             *)
(***************************************************************************)
C7_RangeReaches120 ==
    (lastCall.op = "setOutputLimit" /\ lastCall.arg \in 0..100)
    => /\ lastCall.limit \in {0, 30, 60, 90, 120}
       /\ \E v \in 0..100 : quantized(v) = 120

(***************************************************************************)
(* C7 as amended: for a requested value in [0,100] the quantized value     *)
(* setOutputLimit computes for its command is in {0, 30, 60, 90}; the top  *)
(* of the range, 100, yields 90, and no requested value in [0,100] yields  *)
(* 120 or any value above 100.                                             *)
(***************************************************************************)
C7_RangeBelow100 ==
    (lastCall.op = "setOutputLimit" /\ lastCall.arg \in 0..100)
    => /\ lastCall.limit \in {0, 30, 60, 90}
       /\ lastCall.arg = 100 => lastCall.limit = 90

\* setOutputLimit(100) has computed 90.
C7_Witness ==
    /\ lastCall.op = "setOutputLimit"
    /\ lastCall.arg = 100
    /\ lastCall.limit = 90

(***************************************************************************)
(* C8.  Command publication: every call of setOutputLimit or setBuzzer     *)
(* completes without error and publishes exactly one message, on           *)
(* property_topic, whose payload has the one property key outputLimit      *)
(* (the quantized value the call returns) or buzzerSwitch (1 for on, 0     *)
(* for off).                                                               *)
(***************************************************************************)
PublishedOne(key, value) ==
    /\ lastCall'.raised = "none"
    /\ Len(published') = Len(published) + 1
    /\ SubSeq(published', 1, Len(published)) = published
    /\ published'[Len(published')] =
          [topic |-> property_topic,
           payload |-> [properties |-> [k \in {key} |-> value]]]

C8_CommandPublication ==
    [][/\ \A limit \in RequestTable :
             setOutputLimit(limit)
             => /\ PublishedOne("outputLimit", ClaimedResult(limit))
                /\ lastCall'.ret = <<ClaimedResult(limit)>>
       /\ \A state \in BOOLEAN :
             setBuzzer(state)
             => PublishedOne("buzzerSwitch", IF state THEN 1 ELSE 0)]_vars

(***************************************************************************)
(* C9.  Command/confirmation decoupling: setOutputLimit and setBuzzer      *)
(* leave every field of the hub unchanged; outputLimit changes only in a   *)
(* handleMsg call that carries an outputLimit message with an integer      *)
(* payload, and then takes that message's value.                           *)
(***************************************************************************)
C9_Decoupled ==
    [][/\ (lastCall'.op \in {"setOutputLimit", "setBuzzer"}
             /\ ncalls' = ncalls + 1)
          => hub' = hub
       /\ hub'.outputLimit # hub.outputLimit
          => /\ lastCall'.op = "handleMsg"
             /\ \E topic \in Topics, payload \in ValidPayloads :
                   /\ handleMsg(topic, payload)
                   /\ Metric(topic) = "outputLimit"
                   /\ hub'.outputLimit = int(payload).value]_vars

\* The hub echoed a limit of 100; a command asking for 45 (quantized 60)
\* has been issued since, and outputLimit is still the echoed value.
C9_Witness ==
    /\ lastCall.op = "setOutputLimit"
    /\ lastCall.arg = 45
    /\ lastCall.limit = 60
    /\ hub.outputLimit = 100

(***************************************************************************)
(* C10.  Batteries invariant: in every reachable state the batteries map   *)
(* is non-empty and holds either only the placeholder entry none: -1 or    *)
(* real serial entries, never the placeholder together with a real serial  *)
(* entry.                                                                  *)
(***************************************************************************)
C10_BatteriesInvariant ==
    /\ DOMAIN hub.batteries # {}
    /\ ~ /\ "none" \in DOMAIN hub.batteries
         /\ hub.batteries["none"] = -1
         /\ DOMAIN hub.batteries # {"none"}

(***************************************************************************)
(* C11.  Full/empty timestamp tracking: in every reachable state           *)
(* lastFullTS is set if and only if some electricLevel update with value   *)
(* 100 has been applied, and then equals the time of the most recent such  *)
(* update; lastEmptyTS likewise for value 0.  As the history changes with  *)
(* such an update only, no other operation (another metric, another value, *)
(* an accessor, a command, the passing of time) sets, changes or clears    *)
(* either timestamp.                                                       *)
(***************************************************************************)
C11_FullEmptyTracking ==
    /\ hub.lastFullTS = NoTS <=> history.full = NoTS
    /\ hub.lastFullTS = history.full
    /\ hub.lastEmptyTS = NoTS <=> history.empty = NoTS
    /\ hub.lastEmptyTS = history.empty

\* Full at time 0, empty 120 seconds later: both timestamps are kept, each
\* at the time of its own update.
C11_Witness ==
    /\ hub.lastFullTS = <<0>>
    /\ hub.lastEmptyTS = <<StaleSeconds>>
    /\ hub.electricLevel = 0
    /\ now = StaleSeconds

(***************************************************************************)
(* C12.  Last-writer-wins in delivery order: after any sequence of         *)
(* messages each of electricLevel, outputPackPower, packInputPower,        *)
(* outputHomePower and outputLimit holds the value of the most recently    *)
(* delivered valid message for its metric (its initial value if there was  *)
(* none), and solarInputPower holds the buffer's weighted average as of    *)
(* the most recent sample (-1 if there was none).  Step by step: the       *)
(* delivery of a valid message leaves its value in the field of its metric *)
(* and the other four fields as they were.                                 *)
(***************************************************************************)
RawFields ==
    {"electricLevel", "outputPackPower", "packInputPower", "outputHomePower",
     "outputLimit"}

C12_LastWriterWins ==
    [][\A topic \in TelemetryTopics, payload \in ValidPayloads :
          handleMsg(topic, payload)
          => /\ \A f \in RawFields :
                   hub'[f] = IF Metric(topic) = f THEN int(payload).value
                             ELSE hub[f]
             /\ hub'.solarInputPower =
                   IF hub'.solarInputValues = << >> THEN FromInt(-1)
                   ELSE wavg(hub'.solarInputValues)]_vars

(***************************************************************************)
(* C13.  Elapsed-time accessors: getLastFullBattery returns -1 in every    *)
(* state reached before any electricLevel update with value 100; after     *)
(* such an update at time t it returns (now - t) seconds in hours, which   *)
(* is 0 when called at t and does not decrease while the clock advances    *)
(* with no further full event; getLastEmptyBattery likewise for value 0.   *)
(* Neither accessor changes a field of the hub.                            *)
(***************************************************************************)
FracLeq(a, b) == a.num * b.den <= b.num * a.den

\* ret is the one value r with r = (t - since) / 3600 hours, or -1 when
\* there was no such event.
IsElapsed(ret, since, t) ==
    /\ Len(ret) = 1
    /\ IF since = NoTS
       THEN ret[1] = FromInt(-1)
       ELSE /\ ret[1].num * SecondsPerHour = (t - since[1]) * ret[1].den
            /\ since = <<t>> => ret[1] = FromInt(0)

KnownMetrics == Metrics \cup {"socLevel"}

DroppedFields(h) ==
    <<h.electricLevel, h.solarInputPower, h.outputPackPower,
      h.packInputPower, h.outputHomePower, h.outputLimit, h.batteries,
      h.lastFullTS, h.lastEmptyTS>>

C14_UnknownMetricDropped ==
    [][\A topic \in Topics, payload \in Payloads :
          (Qualifying(topic, payload) /\ Metric(topic) \notin KnownMetrics
             /\ handleMsg(topic, payload))
          => /\ lastCall'.raised = "none"
             /\ DroppedFields(hub') = DroppedFields(hub)]_vars

(***************************************************************************)
(* C15.  Nearest supported value: for every requested value v in [0,100]   *)
(* the value setOutputLimit returns is a multiple of 30 and no other       *)
(* multiple of 30 is strictly closer to v (it differs from v by at most    *)
(* 15).                                                                    *)
(***************************************************************************)
C15_NearestSupported ==
    (lastCall.op = "setOutputLimit" /\ lastCall.arg \in 0..LowLimit)
    => /\ Len(lastCall.ret) = 1
       /\ lastCall.ret[1] % 30 = 0
       /\ Abs(lastCall.ret[1] - lastCall.arg) <= 15
       /\ \A k \in 0..4 :
             Abs(30 * k - lastCall.arg) >= Abs(lastCall.ret[1] - lastCall.arg)

(***************************************************************************)
(* C16.  Battery map contents: a fresh hub has batteries = {"none": -1};   *)
(* after any non-empty sequence of updBatterySoC(serial, v) calls the map  *)
(* holds exactly the serials that have reported, each with its most        *)
(* recently reported value, and the key "none" is absent unless a battery  *)
(* with serial "none" itself reported.                                     *)
(***************************************************************************)
C16_BatteryMapContents ==
    IF DOMAIN history.reported = {}
    THEN hub.batteries = [sn \in {"none"} |-> -1]
    ELSE /\ DOMAIN hub.batteries = DOMAIN history.reported
         /\ \A sn \in DOMAIN history.reported :
               hub.batteries[sn] = history.reported[sn]

(***************************************************************************)
(* C17.  Solar-input timestamp: in every reachable state lastSolarInputTS  *)
(* is absent if and only if no solar-input sample has ever been ingested,  *)
(* and otherwise equals the time of the most recent ingestion; once set it *)
(* is never cleared and never moves backwards, and it changes only in a    *)
(* handleMsg call that ingests a sample, to the time of that call.  (The   *)
(* initial state has neither a timestamp nor a sample; every later state   *)
(* is the primed state of a step.)                                         *)
(***************************************************************************)
C17_SolarTimestamp ==
    [][/\ hub'.lastSolarInputTS = NoTS <=> history'.solar = NoTS
       /\ hub'.lastSolarInputTS = history'.solar
       /\ hub.lastSolarInputTS # NoTS
          => /\ hub'.lastSolarInputTS # NoTS
             /\ hub'.lastSolarInputTS[1] >= hub.lastSolarInputTS[1]
       /\ hub'.lastSolarInputTS # hub.lastSolarInputTS
          => /\ lastCall'.op = "handleMsg"
             /\ ncalls' = ncalls + 1
             /\ hub'.lastSolarInputTS = <<now>>
             /\ hub'.solarInputValues # hub.solarInputValues]_vars

\* A sample 0 at time 0 and a sample 100 at time 120: the timestamp is the
\* time of the second.
C17_Witness ==
    /\ Len(hub.solarInputValues) = 2
    /\ hub.solarInputValues[1] = [ts |-> 0, value |-> 0]
    /\ hub.solarInputValues[2] = [ts |-> StaleSeconds, value |-> 100]
    /\ hub.lastSolarInputTS = <<StaleSeconds>>
    /\ history.solar = <<StaleSeconds>>

(***************************************************************************)
(* C18.  Lazy staleness, negative cases: no zero sample is synthesized     *)
(* (a) while lastSolarInputTS is absent, however much time passes, so      *)
(* solarInputPower stays at -1 until the first solarInputPower message;    *)
(* (b) when at most 120 seconds have passed since lastSolarInputTS         *)
(* (exactly 120 does not trigger); (c) by the passing of time alone:       *)
(* solarInputPower, the buffer and lastSolarInputTS change only inside a   *)
(* handleMsg call, so a stale non-zero solarInputPower persists until the  *)
(* next message.                                                           *)
(***************************************************************************)
SolarFields(h) ==
    <<h.solarInputValues, h.solarInputPower, h.lastSolarInputTS>>

\* lastSolarInputTS is absent or at most 120 seconds old.
WithinLimit ==
    hub.lastSolarInputTS = NoTS \/ now - hub.lastSolarInputTS[1] <= 120

\* In such a state a delivery runs no staleness branch: it does not end in
\* the branch's AttributeError, a message that is no solarInputPower sample
\* leaves the solar fields alone, and a solarInputPower sample adds its own
\* value and nothing else.
NothingSynthesized ==
    \A topic \in Topics, payload \in Payloads :
        LET r == handleMsgOutcome(hub, topic, payload, now)
        IN  /\ r.raised # "AttributeError"
            /\ IF Applied(topic, payload) = "solarInputPower"
               THEN LET buf == r.hub.solarInputValues
                    IN  /\ Len(buf) <= Len(hub.solarInputValues) + 1
                        /\ buf[Len(buf)] =
                              [ts |-> now, value |-> int(payload).value]
               ELSE SolarFields(r.hub) = SolarFields(hub)

C18_LazyStaleness ==
    /\ [](history.solar = NoTS
            => /\ hub.lastSolarInputTS = NoTS
               /\ hub.solarInputPower = FromInt(-1)
               /\ hub.solarInputValues = << >>)
    /\ [](WithinLimit => NothingSynthesized)
    /\ [][SolarFields(hub') # SolarFields(hub)
            => /\ lastCall'.op = "handleMsg"
               /\ ncalls' = ncalls + 1
               /\ now' = now]_vars

\* A sample of 100 at time 0; exactly 120 seconds later an electricLevel
\* message was applied, and the solar fields are as the sample left them.
C18_Witness ==
    /\ now = StaleSeconds
    /\ hub.lastSolarInputTS = <<0>>
    /\ hub.solarInputValues = <<[ts |-> 0, value |-> 100]>>
    /\ hub.solarInputPower = FromInt(100)
    /\ lastCall.op = "handleMsg"
    /\ lastCall.raised = "none"
    /\ hub.electricLevel = 100
    /\ history.full = <<StaleSeconds>>

(***************************************************************************)
(* C19.  The quantizer is idempotent and order-preserving: with q(x) the   *)
(* value setOutputLimit(x) returns, q(q(x)) = q(x), q(x) >= 0 and          *)
(* q(x) <= q(y) for all integers x <= y; so re-sending a value the hub     *)
(* already returned never changes it.                                      *)
(***************************************************************************)
\* line 137-140: what a call setOutputLimit(limit) made now returns, << >>
\* when it raises.
Returns(limit) ==
    LET q == quantized(limit)
        r == publish(published,
                     [properties |-> [k \in {"outputLimit"} |-> q]])
    IN  IF r.raised = "none" THEN <<q>> ELSE << >>

C19_QuantizerAlgebra ==
    lastCall.op = "setOutputLimit"
    => /\ Len(lastCall.ret) = 1
       /\ lastCall.ret[1] >= 0
       /\ Returns(lastCall.ret[1]) = lastCall.ret
       /\ \A y \in Requests :
             lastCall.arg <= y
             => /\ Len(Returns(y)) = 1
                /\ lastCall.ret[1] <= Returns(y)[1]

(***************************************************************************)
(* C20.  Inbound processing never produces outbound traffic: in any        *)
(* sequence of operations handleMsg never publishes; messages are          *)
(* published only by setOutputLimit and setBuzzer, exactly one per call.   *)
(***************************************************************************)
InboundSilent ==
    /\ (lastCall'.op = "handleMsg" /\ ncalls' = ncalls + 1)
       => published' = published
    /\ published' # published
       => /\ lastCall'.op \in {"setOutputLimit", "setBuzzer"}
          /\ ncalls' = ncalls + 1

OnePerCommand ==
    (lastCall'.op \in {"setOutputLimit", "setBuzzer"} /\ ncalls' = ncalls + 1)
    => /\ Len(published') = Len(published) + 1
       /\ SubSeq(published', 1, Len(published)) = published

C20_PublishOnlyOnCommand == [][InboundSilent /\ OnePerCommand]_vars

====
